---- MODULE Spec2Model ----
(***************************************************************************)
(* Security gateway of the academic-advisor backend: the cache manager     *)
(* (backend/cache_manager.py), the middleware chain registered by          *)
(* backend/main.py, and the stages of backend/security_middleware.py,      *)
(* which the chain is built from.                                          *)
(***************************************************************************)
EXTENDS Integers, Sequences, FiniteSets, TLC

\* ------------------------------------------------------------------ bounds
\* The clock runs over 0..MaxTime (seconds, as whole ticks).
MaxTime == 3
\* TTLs handed to CacheManager.set by the cache specification: 0..MaxTtl.
MaxTtl == 2
\* Structured (integer) values handed to CacheManager.set: 0..MaxInt.
MaxInt == 2

\* The rate limiter's configuration: at most RateLimitMax requests of one
\* client in a window of RateLimitWindow seconds.
RateLimitMax == 2
RateLimitWindow == 2
\* The request size guard's configured maximum body size, in bytes.
MaxBodySize == 2
\* Requests of one client that the model sends inside one window.
MaxRequests == 3

\* Texts handed to the sanitizer have at most MaxText characters, and the
\* maximum lengths asked of it run over 1..MaxLength.
MaxText == 3
MaxLength == 2

\* --------------------------------------------------------------- variables
VARIABLES
    env,             \* the environment CacheManager() was constructed in
    now,             \* time.time()
    redis_client,    \* CacheManager._redis_client is set (a remote tier exists)
    redis_store,     \* the contents of the remote store
    fallback_cache,  \* _InMemoryTTLCache._store: key -> (expires_at, value)
    lastOp,          \* the last CacheManager call and what it returned
    req,             \* the request being processed
    pc,              \* idle, down (towards the handler), up (the response returns)
    idx,             \* the position in the middleware chain
    trace,           \* the stages (and the handler) that have run for the request
    termBy,          \* the stage that ended the chain early, if any
    status,          \* the response's status code
    headers,         \* the response carries the security headers
    audit,           \* the audit records written for the request
    auth,            \* the token authenticator's state for the request
    rl,              \* the rate limiter's view: window, requests seen in it, outcome
    san,             \* a text, and what sanitizing it once and twice returned
    th,              \* threads inside CacheManager calls: the lock, their positions
    lim,             \* concurrent requests inside the rate limiter, and its history
    admin,           \* the users table and the calls of /register/admin/initial
    gpa,             \* the notifications table and the calls of check_gpa_warning
    chat             \* the chat_messages table and the /chat requests

cacheVars == <<env, now, redis_client, redis_store, fallback_cache, lastOp>>

appVars == <<admin, gpa, chat>>

chainVars == <<req, pc, idx, trace, termBy, status, headers, audit, auth, rl>>

vars == <<env, now, redis_client, redis_store, fallback_cache, lastOp,
          req, pc, idx, trace, termBy, status, headers, audit, auth, rl, san,
          th, lim, admin, gpa, chat>>

\* ------------------------------------------------------------------ values
\* A Python value as the cache sees it: None, a text, or a structured value
\* (an integer).  The tag keeps "1" and 1 apart.
None == [t |-> "none", s |-> "", n |-> 0]

PyStr(s) == [t |-> "str", s |-> s, n |-> 0]

PyInt(n) == [t |-> "int", s |-> "", n |-> n]

\* The integers whose decimal text the model can meet: the values callers
\* store and the rate counters.
JsonInts == 0..(MaxInt + RateLimitMax + MaxRequests)

\* json.dumps of an integer: its decimal text.
json_dumps(n) == ToString(n)

\* Whether json.loads accepts the text, for the texts the model stores:
\* decimal integers and the literal null; anything else is a JSONDecodeError.
json_decodes(text) == text = "null" \/ \E n \in JsonInts : ToString(n) = text

json_loads(text) ==
    IF text = "null" THEN None
    ELSE PyInt(CHOOSE n \in JsonInts : ToString(n) = text)

\* CacheManager._serialize: a text passes through, anything else is dumped.
serialize(value) == IF value.t = "str" THEN value.s ELSE json_dumps(value.n)

\* CacheManager._deserialize: None stays None, a decodable text is decoded,
\* any other text is returned raw.
deserialize(cached) ==
    IF cached = None THEN None
    ELSE IF json_decodes(cached.s) THEN json_loads(cached.s)
    ELSE PyStr(cached.s)

\* ------------------------------------------------------------- local store
\* dict assignment and deletion.
DictPut(d, key, e) == [x \in (DOMAIN d) \cup {key} |-> IF x = key THEN e ELSE d[x]]

DictDel(d, key) == [x \in (DOMAIN d) \ {key} |-> d[x]]

EmptyDict == [x \in {} |-> 0]

\* An expiry check that never finds an entry dead.
InMemoryExpired_Never(entry, t) == FALSE

\* Whether _InMemoryTTLCache.get finds the entry dead at time t.
InMemoryExpired(entry, t) == entry.expires_at < t

\* _InMemoryTTLCache.get that reports a dead entry absent but keeps it.
InMemoryGet_NoEvict(st, key, t) ==
    IF key \notin DOMAIN st THEN [store |-> st, value |-> None]
    ELSE IF st[key].expires_at < t THEN [store |-> st, value |-> None]
    ELSE [store |-> st, value |-> PyStr(st[key].value)]

\* _InMemoryTTLCache.get under its lock: the value, and the store after it.
InMemoryGet(st, key, t) ==
    IF key \notin DOMAIN st THEN [store |-> st, value |-> None]
    ELSE IF InMemoryExpired(st[key], t) THEN [store |-> DictDel(st, key), value |-> None]
    ELSE [store |-> st, value |-> PyStr(st[key].value)]

\* _InMemoryTTLCache.set: overwrite with (now + ttl, value).
InMemorySet(st, key, text, ttl_seconds, t) ==
    DictPut(st, key, [expires_at |-> t + ttl_seconds, value |-> text])

\* ------------------------------------------------------------ remote store
\* redis GET: the stored bytes while the key has not expired, else None.
RedisGet(rs, key, t) ==
    IF key \in DOMAIN rs /\ t < rs[key].expires_at THEN PyStr(rs[key].value) ELSE None

\* redis SETEX refuses a non-positive expire time with an error.
RedisSetexRaises(ttl_seconds) == ttl_seconds <= 0

\* SETEX called with the arguments in the order of SET: the entry gets no
\* lifetime and is gone at once.
RedisSetex_NoLifetime(rs, key, text, ttl_seconds, t) ==
    DictPut(rs, key, [expires_at |-> t, value |-> text])

RedisSetex(rs, key, text, ttl_seconds, t) ==
    DictPut(rs, key, [expires_at |-> t + ttl_seconds, value |-> text])

\* The keys redis has expired by time t are gone from it.
RedisExpire(rs, t) ==
    [x \in {k \in DOMAIN rs : t < rs[k].expires_at} |-> rs[x]]

\* ----------------------------------------------------------- cache manager
\* CacheManager.get without the except clause: a remote error leaves the call.
ManagerGet_Raises(rs, st, key, fail) ==
    LET remote == RedisGet(rs, key, now)
        local == InMemoryGet(st, key, now)
    IN  IF redis_client /\ fail
        THEN [value |-> None, store |-> st, tier |-> "remote", raised |-> TRUE]
        ELSE IF redis_client /\ remote # None
        THEN [value |-> deserialize(remote), store |-> st,
              tier |-> "remote", raised |-> FALSE]
        ELSE [value |-> local.value, store |-> local.store,
              tier |-> "local", raised |-> FALSE]

\* CacheManager.get that never asks the remote store.
ManagerGet_LocalOnly(rs, st, key, fail) ==
    LET local == InMemoryGet(st, key, now)
    IN  [value |-> local.value, store |-> local.store,
         tier |-> "local", raised |-> FALSE]

\* CacheManager.get on remote contents rs and local store st.  `fail` is
\* whether the remote call raises.  The result:
\* the value, the local store after the call, the tier that answered, and
\* whether an exception left the call.
ManagerGet(rs, st, key, fail) ==
    LET remote == RedisGet(rs, key, now)
        local == InMemoryGet(st, key, now)
    IN  IF redis_client /\ ~fail /\ remote # None
        THEN [value |-> deserialize(remote), store |-> st,
              tier |-> "remote", raised |-> FALSE]
        ELSE [value |-> local.value, store |-> local.store,
              tier |-> "local", raised |-> FALSE]

\* CacheManager.set.  The result: both stores after the call, the tier
\* written, and whether an exception left the call.
ManagerSet(rs, st, key, value, ttl_seconds, fail) ==
    LET serialized == serialize(value)
    IN  IF redis_client /\ ~fail /\ ~RedisSetexRaises(ttl_seconds)
        THEN [redis |-> RedisSetex(rs, key, serialized, ttl_seconds, now),
              store |-> st, tier |-> "remote", raised |-> FALSE]
        ELSE [redis |-> rs,
              store |-> InMemorySet(st, key, serialized, ttl_seconds, now),
              tier |-> "local", raised |-> FALSE]

\* The environments a CacheManager is constructed in: whether REDIS_CACHE_URL
\* or RATE_LIMIT_REDIS_URL holds a connection string, whether the redis
\* package was imported, and whether redis.Redis.from_url raises (it is only
\* called with a connection string and the package).
Environments ==
    {e \in [redis_url : BOOLEAN, redis : BOOLEAN, from_url_raises : BOOLEAN] :
        e.from_url_raises => (e.redis_url /\ e.redis)}

\* CacheManager.__init__ without the except clause's reset: a client is kept
\* although from_url raised.
CacheManagerInit_NoExcept(e) == e.redis_url /\ e.redis

\* CacheManager.__init__: whether _redis_client is set after construction.
CacheManagerInit(e) == e.redis_url /\ e.redis /\ ~e.from_url_raises

\* ------------------------------------------------------ cache specification
Keys == {"k1"}

Values == {PyStr("abc"), PyStr("1")} \cup {PyInt(n) : n \in 1..MaxInt}

NoOp == [op |-> "none", key |-> "", value |-> None, ttl |-> 0, at |-> 0,
         failed |-> FALSE, tier |-> "", raised |-> FALSE, result |-> None,
         evicted |-> FALSE]

NoRequest == [client |-> "", size |-> 0, waf |-> FALSE, path |-> <<>>, cred |-> "none"]

NoLimit == [window |-> -1, seen |-> 0, outcome |-> ""]

\* No text has been handed to the sanitizer.
NoText == [value |-> <<>>, max_length |-> 0, once |-> <<>>, twice |-> <<>>, pc |-> "idle"]

\* The threads that call the cache manager at the same time.
MaxThreads == 2

Threads == 1..MaxThreads

\* A thread's local variables inside _InMemoryTTLCache.get and
\* CacheManager.set: the serialized text and TTL it was called with, the
\* expires_at it computed, and the entry it read.
NoLocal == [text |-> "", ttl |-> 0, expires_at |-> 0,
            entry |-> [expires_at |-> 0, value |-> ""]]

\* No thread is inside a cache manager call, and the lock is free.
NoThreads ==
    [lock |-> 0, pc |-> [t \in Threads |-> "idle"], loc |-> [t \in Threads |-> NoLocal]]

\* The requests that are inside the rate limiter at the same time.
MaxConcurrent == 2

Concurrent == 1..MaxConcurrent

\* No request is inside the rate limiter, and none has been.
NoLimiter ==
    [pc |-> [r \in Concurrent |-> "idle"],
     count |-> [r \in Concurrent |-> 0],
     admitted |-> [t \in 0..MaxTime |-> 0],
     arrived |-> 0,
     wrote |-> [t \in 0..MaxTime |-> -1],
     overlap |-> FALSE,
     failed |-> FALSE]

\* The sessions that run register_initial_admin at the same time, and the
\* user ids and e-mail addresses they ask for.
MaxAdminCalls == 2

AdminCalls == 1..MaxAdminCalls

NoAdminData == [user_id |-> "", email |-> "", admin_existed |-> FALSE]

\* The users table before any call of /register/admin/initial.
NoAdmin ==
    [users |-> {},
     pc |-> [c \in AdminCalls |-> "idle"],
     data |-> [c \in AdminCalls |-> NoAdminData],
     answer |-> [c \in AdminCalls |-> 0],
     created |-> 0]

\* The days the notifications' clock runs over, and the callers that run
\* check_gpa_warning for one user at the same time.
MaxDay == 8

MaxGpaCalls == 2

GpaCalls == 1..MaxGpaCalls

\* The notifications table without a low-GPA alert of the user: the alerts
\* created on each day, the day, and the callers' positions.
NoGpa ==
    [alerts |-> [d \in 0..MaxDay |-> 0],
     day |-> 0,
     pc |-> [c \in GpaCalls |-> "idle"],
     current_gpa |-> [c \in GpaCalls |-> 0]]

\* The /chat requests that are served at the same time.
MaxChatCalls == 2

ChatCalls == 1..MaxChatCalls

NoChatCall ==
    [pc |-> "idle", current_user |-> "", is_demo |-> FALSE, user_id |-> "",
     processed |-> FALSE, intent |-> "", answer |-> 0]

\* The chat_messages table, empty, and no /chat request being served.
NoChat ==
    [messages |-> {}, call |-> [c \in ChatCalls |-> NoChatCall]]

\* No application route is being served.
AppIdle ==
    /\ admin = NoAdmin
    /\ gpa = NoGpa
    /\ chat = NoChat

\* No request is in the gateway.
ChainIdle ==
    /\ req = NoRequest
    /\ pc = "idle"
    /\ idx = 0
    /\ trace = <<>>
    /\ termBy = ""
    /\ status = 0
    /\ headers = FALSE
    /\ audit = 0
    /\ auth = ""
    /\ rl = NoLimit

InitCache ==
    /\ env \in Environments
    /\ now = 0
    /\ redis_client = CacheManagerInit(env)
    /\ redis_store = EmptyDict
    /\ fallback_cache = EmptyDict
    /\ lastOp = NoOp
    /\ ChainIdle
    /\ san = NoText
    /\ th = NoThreads
    /\ lim = NoLimiter
    /\ AppIdle

\* A caller's cache_manager.set(key, value, ttl_seconds).
CacheSet ==
    \E key \in Keys, value \in Values, ttl \in 0..MaxTtl, fail \in BOOLEAN :
        LET r == ManagerSet(redis_store, fallback_cache, key, value, ttl, fail)
        IN  /\ (fail => redis_client)
            /\ redis_store' = r.redis
            /\ fallback_cache' = r.store
            /\ lastOp' = [op |-> "set", key |-> key, value |-> value, ttl |-> ttl,
                          at |-> now, failed |-> (fail \/ (redis_client /\ RedisSetexRaises(ttl))),
                          tier |-> r.tier, raised |-> r.raised, result |-> None,
                          evicted |-> FALSE]
            /\ UNCHANGED <<env, now, redis_client>>
            /\ UNCHANGED <<chainVars, san, th, lim, appVars>>

\* A caller's cache_manager.get(key).
CacheGet ==
    \E key \in Keys, fail \in BOOLEAN :
        LET r == ManagerGet(redis_store, fallback_cache, key, fail)
        IN  /\ (fail => redis_client)
            /\ fallback_cache' = r.store
            /\ lastOp' = [op |-> "get", key |-> key, value |-> None, ttl |-> 0,
                          at |-> now, failed |-> fail,
                          tier |-> r.tier, raised |-> r.raised, result |-> r.value,
                          evicted |-> (key \in DOMAIN fallback_cache /\ key \notin DOMAIN r.store)]
            /\ UNCHANGED <<env, now, redis_client, redis_store>>
            /\ UNCHANGED <<chainVars, san, th, lim, appVars>>

\* A second passes.  The clock is read only by the stage a request enters
\* first or by a direct cache call, so it advances between requests.
Tick ==
    /\ now < MaxTime
    /\ pc = "idle"
    /\ now' = now + 1
    /\ redis_store' = RedisExpire(redis_store, now + 1)
    /\ UNCHANGED <<env, redis_client, fallback_cache, lastOp>>
    /\ UNCHANGED <<chainVars, san, th, lim, appVars>>

NextCache == CacheSet \/ CacheGet \/ Tick

SpecCache == InitCache /\ [][NextCache]_vars

\* ------------------------------------------------------------ cache claims
\* The live value of the local store for a key at the current time.
LocalLive(key) ==
    IF key \in DOMAIN fallback_cache /\ fallback_cache[key].expires_at >= now
    THEN PyStr(fallback_cache[key].value) ELSE None

\* C4: set(k, v, ttl) with ttl > 0 followed at once by get(k), with no
\* remote error in either call, returns a value equal to v.
C4_RoundTrip ==
    [][(/\ lastOp.op = "set" /\ lastOp.ttl > 0 /\ ~lastOp.failed
        /\ lastOp'.op = "get" /\ lastOp'.key = lastOp.key
        /\ lastOp'.at = lastOp.at /\ ~lastOp'.failed)
       => lastOp'.result = lastOp.value]_vars

\* C5: a read of the local store at a time past the entry's expires_at
\* returns absent and removes the entry, and a read of the local store
\* returns a value only from an entry that has not expired.
C5_Expiry ==
    [][(lastOp' # lastOp /\ lastOp'.op = "get" /\ lastOp'.tier = "local")
       => LET k == lastOp'.key
          IN  /\ (k \in DOMAIN fallback_cache /\ now > fallback_cache[k].expires_at)
                   => (lastOp'.result = None /\ k \notin DOMAIN fallback_cache')
              /\ lastOp'.result # None
                   => (/\ k \in DOMAIN fallback_cache
                       /\ now <= fallback_cache[k].expires_at
                       /\ lastOp'.result = PyStr(fallback_cache[k].value))]_vars

\* C5 witness: a get found an entry past its expires_at, returned absent
\* and evicted it, though nothing had deleted it.
C5_Witness ==
    /\ lastOp.op = "get" /\ lastOp.evicted /\ lastOp.result = None
    /\ lastOp.key \notin DOMAIN fallback_cache

\* C6: when the remote call raises during get or set, nothing is raised to
\* the caller, set writes the entry to the local store and leaves the remote
\* store alone, and get returns the local store's live value or absent.
C6_Fallback ==
    [][(lastOp' # lastOp /\ lastOp'.failed)
       => LET k == lastOp'.key
          IN  /\ ~lastOp'.raised
              /\ lastOp'.op = "get" => lastOp'.result = LocalLive(k)
              /\ lastOp'.op = "set"
                   => (/\ k \in DOMAIN fallback_cache'
                       /\ fallback_cache'[k] = [expires_at |-> now + lastOp'.ttl,
                                                 value |-> serialize(lastOp'.value)]
                       /\ redis_store' = redis_store)]_vars

\* C6 witness: the remote call of a get raised and the caller got the value
\* that a set whose remote call had raised wrote to the local store.
C6_Witness ==
    /\ redis_client /\ lastOp.op = "get" /\ lastOp.failed
    /\ ~lastOp.raised /\ lastOp.result # None

\* C14: the remote client is what construction made it and no get or set
\* changes it; constructed without a connection string, without the redis
\* package or with a failing from_url, the manager has no remote client, and
\* every get and set is served by the local store and leaves the remote
\* store untouched.
C14_RemoteSelectedOnce ==
    /\ []((~env.redis_url \/ ~env.redis \/ env.from_url_raises)
            => /\ ~redis_client
               /\ redis_store = EmptyDict
               /\ lastOp.op # "none" => lastOp.tier = "local")
    /\ [][redis_client' = redis_client /\ env' = env]_vars

\* C14 witness: a manager whose from_url raised at construction has served a
\* get from the local store.
C14_Witness ==
    /\ env.from_url_raises /\ ~redis_client
    /\ lastOp.op = "get" /\ lastOp.tier = "local" /\ lastOp.result # None

\* C15: a read of the local store returns a value only while
\* now < expires_at: at now = expires_at and later the entry is absent, so an
\* entry written with a non-positive TTL is absent for a get at the instant
\* of its set and at every later one.
C15_ExpiryBoundary ==
    [][(lastOp' # lastOp /\ lastOp'.op = "get" /\ lastOp'.tier = "local")
       => LET k == lastOp'.key
          IN  /\ lastOp'.result # None
                   => (k \in DOMAIN fallback_cache /\ now < fallback_cache[k].expires_at)
              /\ (k \in DOMAIN fallback_cache /\ now >= fallback_cache[k].expires_at)
                   => lastOp'.result = None]_vars

\* C16: whichever tier serves a get, the value returned is the stored text
\* decoded from the interchange format (the raw text only when it does not
\* decode), so the same entry reads the same from the remote store and from
\* the local store.
C16_TierTransparency ==
    [][(lastOp' # lastOp /\ lastOp'.op = "get" /\ lastOp'.result # None)
       => LET k == lastOp'.key
              stored == IF lastOp'.tier = "remote" THEN redis_store[k].value
                        ELSE fallback_cache[k].value
          IN  lastOp'.result = deserialize(PyStr(stored))]_vars

\* C21: whatever remote calls failed before, a get of the key of the most
\* recent set returns absent or that set's value (as the value or as its
\* serialized text), never the value of an older set.
C21_NoStaleRead ==
    [][(/\ lastOp.op = "set"
        /\ lastOp' # lastOp /\ lastOp'.op = "get" /\ lastOp'.key = lastOp.key
        /\ lastOp'.result # None)
       => serialize(lastOp'.result) = serialize(lastOp.value)]_vars

\* ------------------------------------------------------- middleware chain
\* The registration with WAFMiddleware added before JWTAuthMiddleware, so
\* that the token authenticator wraps the WAF inspector.
registered_WafFirst ==
    << "CORSMiddleware", "AuditLoggingMiddleware", "SecurityHeadersMiddleware",
       "InputSanitizationMiddleware", "WAFMiddleware", "JWTAuthMiddleware",
       "RequestSizeMiddleware", "RateLimitMiddleware" >>

\* The registration without the add_middleware call of the input sanitizer.
registered_NoSanitizer ==
    << "CORSMiddleware", "AuditLoggingMiddleware", "SecurityHeadersMiddleware",
       "JWTAuthMiddleware", "WAFMiddleware",
       "RequestSizeMiddleware", "RateLimitMiddleware" >>

\* The middleware classes in the order main.py hands them to
\* app.add_middleware.
registered ==
    << "CORSMiddleware", "AuditLoggingMiddleware", "SecurityHeadersMiddleware",
       "InputSanitizationMiddleware", "JWTAuthMiddleware", "WAFMiddleware",
       "RequestSizeMiddleware", "RateLimitMiddleware" >>

Reverse(seq) == [i \in 1..Len(seq) |-> seq[Len(seq) + 1 - i]]

\* The chain if the first middleware added ran first.
Chain_Unreversed == registered

\* The chain a request runs through, outermost stage first: each
\* add_middleware wraps the stages added before it, so the last one added
\* runs first.
Chain == Reverse(registered)

\* Paths, as sequences of characters.
ChatPath == << "/", "c", "h", "a", "t" >>

UsersPath == << "/", "u", "s", "e", "r", "s" >>

ProgressPath == << "/", "p", "r", "o", "g", "r", "e", "s", "s" >>

NotificationsPath ==
    << "/", "n", "o", "t", "i", "f", "i", "c", "a", "t", "i", "o", "n", "s" >>

DocumentsPath == << "/", "d", "o", "c", "u", "m", "e", "n", "t", "s" >>

GraphPath == << "/", "g", "r", "a", "p", "h" >>

\* protected_paths without its last entry.
protected_paths_NoGraph ==
    << ChatPath, UsersPath, ProgressPath, NotificationsPath, DocumentsPath >>

\* protected_paths handed to JWTAuthMiddleware.
protected_paths ==
    << ChatPath, UsersPath, ProgressPath, NotificationsPath, DocumentsPath, GraphPath >>

\* str.startswith.
StartsWith(path, prefix) ==
    Len(prefix) <= Len(path) /\ SubSeq(path, 1, Len(prefix)) = prefix

\* Whether the path matches a configured protected-path prefix.
IsProtected(path) ==
    \E i \in 1..Len(protected_paths) : StartsWith(path, protected_paths[i])

\* The paths of the requests the model sends: /chat, /graph/ingest, /user
\* and /health.
Paths ==
    { ChatPath,
      GraphPath \o << "/", "i", "n", "g", "e", "s", "t" >>,
      << "/", "u", "s", "e", "r" >>,
      << "/", "h", "e", "a", "l", "t", "h" >> }

\* A bearer credential: none, malformed, expired, or valid.
Credentials == {"none", "malformed", "expired", "valid"}

Clients == {"X"}

Requests ==
    [client : Clients, size : {MaxBodySize, MaxBodySize + 1}, waf : BOOLEAN,
     path : Paths, cred : Credentials]

\* The statuses a handler answers with.
HandlerStatuses == {200, 404}

\* --------------------------------------------------------------- stages
\* The stage at the current position is `stage`, and the request enters it.
Enters(stage) == pc = "down" /\ idx \in 1..Len(Chain) /\ Chain[idx] = stage

\* The stage calls the next one.
Continue ==
    /\ pc' = "down"
    /\ idx' = idx + 1
    /\ trace' = Append(trace, Chain[idx])
    /\ UNCHANGED <<termBy, status>>

\* The stage answers by itself with `code`: nothing further in runs, and
\* the response returns through the stages around it.
Terminate(code) ==
    /\ pc' = "up"
    /\ idx' = idx - 1
    /\ trace' = Append(trace, Chain[idx])
    /\ termBy' = Chain[idx]
    /\ status' = code

\* The rate counter's key: rate:{clientIdentity}:{floor(now / W)}.
RateKey(client, t) == "rate:" \o client \o ":" \o ToString(t \div RateLimitWindow)

\* count = CacheManager.get(key) or 0: None, 0 and the empty text count as 0.
CountOrZero(value) ==
    IF value = None \/ value = PyInt(0) \/ value = PyStr("") THEN PyInt(0) ELSE value

\* The limiter's decision on the count it read: a count that is a text
\* cannot be compared with the threshold (a type fault), a count at or over
\* the threshold is rejected, any other is admitted.
RateDecision(count) ==
    IF count.t # "int" THEN "fault"
    ELSE IF count.n >= RateLimitMax THEN "reject"
    ELSE "continue"

\* RateLimitMiddleware: read the counter, decide, and write the counter back
\* incremented when the request is admitted.
RateLimit ==
    /\ Enters("RateLimitMiddleware")
    /\ \E failGet \in BOOLEAN, failSet \in BOOLEAN :
        LET key == RateKey(req.client, now)
            got == ManagerGet(redis_store, fallback_cache, key, failGet)
            count == CountOrZero(got.value)
            decision == RateDecision(count)
            put == ManagerSet(redis_store, got.store, key, PyInt(count.n + 1),
                              RateLimitWindow, failSet)
            window == now \div RateLimitWindow
        IN  /\ (failGet \/ failSet) => redis_client
            /\ failSet => decision = "continue"
            /\ rl' = [window |-> window,
                      seen |-> IF rl.window = window THEN rl.seen + 1 ELSE 1,
                      outcome |-> decision]
            /\ IF decision = "continue"
               THEN /\ redis_store' = put.redis
                    /\ fallback_cache' = put.store
                    /\ Continue
               ELSE /\ redis_store' = redis_store
                    /\ fallback_cache' = got.store
                    /\ Terminate(IF decision = "reject" THEN 429 ELSE 500)
    /\ UNCHANGED <<env, now, redis_client, lastOp, req, headers, audit, auth, san,
                 th, lim, appVars>>

\* RequestSizeMiddleware: a body over the configured maximum ends the request.
RequestSize ==
    /\ Enters("RequestSizeMiddleware")
    /\ IF req.size > MaxBodySize THEN Terminate(413) ELSE Continue
    /\ UNCHANGED <<san, th, lim, appVars>>
    /\ UNCHANGED <<cacheVars, req, headers, audit, auth, rl>>

\* WAFMiddleware: a request matching a signature rule ends as forbidden.
WAF ==
    /\ Enters("WAFMiddleware")
    /\ IF req.waf THEN Terminate(403) ELSE Continue
    /\ UNCHANGED <<san, th, lim, appVars>>
    /\ UNCHANGED <<cacheVars, req, headers, audit, auth, rl>>

\* JWTAuthMiddleware: unprotected paths skip authentication; on a protected
\* path only a valid credential is authorized, any other ends as unauthorized.
JWTAuth ==
    /\ Enters("JWTAuthMiddleware")
    /\ IF ~IsProtected(req.path)
       THEN auth' = "Skipped" /\ Continue
       ELSE IF req.cred = "valid"
       THEN auth' = "Authorized" /\ Continue
       ELSE auth' = "Rejected" /\ Terminate(401)
    /\ UNCHANGED <<san, th, lim, appVars>>
    /\ UNCHANGED <<cacheVars, req, headers, audit, rl>>

\* InputSanitizationMiddleware: cleans the textual fields and calls on.
InputSanitization ==
    /\ Enters("InputSanitizationMiddleware")
    /\ Continue
    /\ UNCHANGED <<san, th, lim, appVars>>
    /\ UNCHANGED <<cacheVars, req, headers, audit, auth, rl>>

\* SecurityHeadersMiddleware, AuditLoggingMiddleware and CORSMiddleware call
\* the next stage first and act on the response on its way back.
CallNext ==
    /\ \/ Enters("SecurityHeadersMiddleware")
       \/ Enters("AuditLoggingMiddleware")
       \/ Enters("CORSMiddleware")
    /\ Continue
    /\ UNCHANGED <<san, th, lim, appVars>>
    /\ UNCHANGED <<cacheVars, req, headers, audit, auth, rl>>

\* The route handler answers.
Handler ==
    /\ pc = "down"
    /\ idx = Len(Chain) + 1
    /\ \E code \in HandlerStatuses : status' = code
    /\ trace' = Append(trace, "handler")
    /\ pc' = "up"
    /\ idx' = idx - 1
    /\ UNCHANGED <<san, th, lim, appVars>>
    /\ UNCHANGED <<cacheVars, req, termBy, headers, audit, auth, rl>>

\* The response passes back through the stage at the current position:
\* the header injector adds the security headers, the audit logger writes
\* its record.
Unwind ==
    /\ pc = "up"
    /\ idx \in 1..Len(Chain)
    /\ headers' = (headers \/ Chain[idx] = "SecurityHeadersMiddleware")
    /\ audit' = IF Chain[idx] = "AuditLoggingMiddleware" THEN audit + 1 ELSE audit
    /\ idx' = idx - 1
    /\ UNCHANGED <<san, th, lim, appVars>>
    /\ UNCHANGED <<cacheVars, req, pc, trace, termBy, status, auth, rl>>

\* The response has passed every stage around the one that produced it.
Responded == pc = "up" /\ idx = 0

\* The response leaves the gateway, and the request's context is discarded.
Respond ==
    /\ Responded
    /\ req' = NoRequest
    /\ pc' = "idle"
    /\ trace' = <<>>
    /\ termBy' = ""
    /\ status' = 0
    /\ headers' = FALSE
    /\ audit' = 0
    /\ auth' = ""
    /\ rl' = [rl EXCEPT !.outcome = ""]
    /\ UNCHANGED <<san, th, lim, appVars>>
    /\ UNCHANGED <<cacheVars, idx>>

\* The gateway runs with the redis package installed, with or without a
\* connection string for it.
GatewayEnvironments ==
    {e \in Environments : e.redis /\ ~e.from_url_raises}

\* The next request of the client arrives.
NewRequest ==
    /\ pc = "idle"
    /\ (rl.window = now \div RateLimitWindow) => rl.seen < MaxRequests
    /\ \E r \in Requests : req' = r
    /\ pc' = "down"
    /\ idx' = 1
    /\ UNCHANGED <<san, th, lim, appVars>>
    /\ UNCHANGED <<cacheVars, trace, termBy, status, headers, audit, auth, rl>>

Init ==
    /\ env \in GatewayEnvironments
    /\ now = 0
    /\ redis_client = CacheManagerInit(env)
    /\ redis_store = EmptyDict
    /\ fallback_cache = EmptyDict
    /\ lastOp = NoOp
    /\ ChainIdle
    /\ san = NoText
    /\ th = NoThreads
    /\ lim = NoLimiter
    /\ AppIdle

Next ==
    \/ NewRequest
    \/ RateLimit
    \/ RequestSize
    \/ WAF
    \/ JWTAuth
    \/ InputSanitization
    \/ CallNext
    \/ Handler
    \/ Unwind
    \/ Respond
    \/ Tick

Spec == Init /\ [][Next]_vars

\* ---------------------------------------------------------- gateway claims
\* The checking stages in the spec's fixed order.
CheckOrder ==
    << "RateLimitMiddleware", "RequestSizeMiddleware", "WAFMiddleware",
       "JWTAuthMiddleware", "InputSanitizationMiddleware" >>

\* Whether a stage (or the handler) has run for the request.
Ran(stage) == \E i \in 1..Len(trace) : trace[i] = stage

IsCheck(stage) == \E i \in 1..Len(CheckOrder) : CheckOrder[i] = stage

\* The checking stages that have run, in the order they ran.
ChecksRun == SelectSeq(trace, IsCheck)

\* C1: every request, whichever stage ends it, has produced exactly one
\* audit record and a response carrying the security headers by the time
\* the response leaves the gateway.
C1_AuditedWithHeaders == Responded => (audit = 1 /\ headers)

\* C2: once a stage has terminated the chain, no checking stage later in the
\* fixed order and not the handler has run or runs for the request; a request
\* that fails the WAF check never reaches the token authenticator, the input
\* sanitizer or the handler.
C2_NoStageAfterTermination ==
    /\ \A i \in 1..Len(CheckOrder) :
          termBy = CheckOrder[i]
             => /\ ~Ran("handler")
                /\ \A j \in (i + 1)..Len(CheckOrder) : ~Ran(CheckOrder[j])
    /\ (Ran("WAFMiddleware") /\ req.waf)
          => /\ termBy = "WAFMiddleware"
             /\ ~Ran("JWTAuthMiddleware")
             /\ ~Ran("InputSanitizationMiddleware")
             /\ ~Ran("handler")

\* C2 witness: a request that failed the WAF check has been answered, and
\* only the rate limiter, the size guard and the WAF inspector ran for it.
C2_Witness ==
    /\ Responded /\ req.waf /\ termBy = "WAFMiddleware" /\ status = 403
    /\ ChecksRun = SubSeq(CheckOrder, 1, 3)

\* C3: a request that reaches the handler has passed the rate limiter, the
\* size guard, the WAF inspector, the token authenticator and the input
\* sanitizer, in this order, and each of them continued.
C3_HandlerAfterAllChecks ==
    Ran("handler") => (ChecksRun = CheckOrder /\ termBy = "")

\* C3 witness: the handler has run for a request and answered 200.
C3_Witness == Ran("handler") /\ status = 200 /\ Responded

\* C7: of the sequential requests of one client in one window, the first
\* RateLimitMax are admitted (so is the first request of a new window) and
\* the next one is rejected.
C7_RateLimit ==
    rl.outcome # ""
       => /\ rl.seen <= RateLimitMax => rl.outcome = "continue"
          /\ rl.seen = RateLimitMax + 1 => rl.outcome = "reject"

\* The protected-path prefixes the claim lists.
ClaimProtected(path) ==
    \E prefix \in {ChatPath, UsersPath, ProgressPath, NotificationsPath,
                   DocumentsPath, GraphPath} : StartsWith(path, prefix)

\* C8: a request whose path matches none of /chat, /users, /progress,
\* /notifications, /documents, /graph passes the token authenticator without
\* a credential check; one whose path matches passes only Authorized, with a
\* valid credential, and is otherwise terminated as unauthorized.
C8_TokenAuthenticator ==
    Ran("JWTAuthMiddleware")
       => IF ~ClaimProtected(req.path)
          THEN auth = "Skipped" /\ termBy # "JWTAuthMiddleware"
          ELSE IF req.cred = "valid"
          THEN auth = "Authorized" /\ termBy # "JWTAuthMiddleware"
          ELSE auth = "Rejected" /\ termBy = "JWTAuthMiddleware" /\ status = 401

\* C8 witness: a request to /graph/ingest with an expired credential has
\* been answered 401 by the token authenticator.
C8_Witness ==
    /\ Responded /\ StartsWith(req.path, GraphPath) /\ req.cred = "expired"
    /\ termBy = "JWTAuthMiddleware" /\ status = 401

\* C9: the size guard accepts a body of exactly the configured maximum, and
\* rejects a body one byte over it before the WAF inspector, the token
\* authenticator, the input sanitizer or the handler has run.
C9_SizeBoundary ==
    Ran("RequestSizeMiddleware")
       => /\ req.size = MaxBodySize => termBy # "RequestSizeMiddleware"
          /\ req.size = MaxBodySize + 1
                => /\ termBy = "RequestSizeMiddleware" /\ status = 413
                   /\ ~Ran("WAFMiddleware") /\ ~Ran("JWTAuthMiddleware")
                   /\ ~Ran("InputSanitizationMiddleware") /\ ~Ran("handler")

\* C9 witness: a request one byte over the maximum has been answered 413.
C9_Witness ==
    /\ Responded /\ req.size = MaxBodySize + 1
    /\ termBy = "RequestSizeMiddleware" /\ status = 413

\* --------------------------------------------------------------- sanitizer
\* The characters of the model's texts: a letter, a blank, a control
\* character and a script-tag marker.
Alphabet == {"a", " ", "NUL", "<"}

Texts == UNION {[1..n -> Alphabet] : n \in 0..MaxText}

IsSpace(c) == c = " "

\* The denylist: control characters and script-tag markers.
Denylist == {"NUL", "<"}

\* str.strip: the text without its leading and trailing whitespace.
Trim(text) ==
    LET solid == {i \in 1..Len(text) : ~IsSpace(text[i])}
    IN  IF solid = {} THEN <<>>
        ELSE SubSeq(text,
                    CHOOSE i \in solid : \A j \in solid : i <= j,
                    CHOOSE i \in solid : \A j \in solid : j <= i)

Truncate(text, max_length) ==
    IF Len(text) > max_length THEN SubSeq(text, 1, max_length) ELSE text

NotDenied(c) == c \notin Denylist

StripDenied(text) == SelectSeq(text, NotDenied)

\* sanitize_string(value, max_length): trims surrounding whitespace,
\* truncates to the maximum length, and strips the denylisted characters.
sanitize_string(value, max_length) ==
    StripDenied(Truncate(Trim(value), max_length))

\* InputSanitizationMiddleware sanitizes a textual field.
SanitizeField ==
    /\ san.pc = "idle"
    /\ \E value \in Texts, max_length \in 1..MaxLength :
          san' = [value |-> value, max_length |-> max_length,
                  once |-> sanitize_string(value, max_length),
                  twice |-> <<>>, pc |-> "once"]
    /\ UNCHANGED <<cacheVars, chainVars, th, lim, appVars>>

\* ChatRequest.validate_question: an empty or blank question is refused,
\* any other is sanitized (to the schema's maximum length).
ValidateQuestion ==
    /\ san.pc = "idle"
    /\ \E v \in Texts :
          IF v = <<>> \/ Trim(v) = <<>>
          THEN san' = [value |-> v, max_length |-> MaxLength, once |-> <<>>,
                       twice |-> <<>>, pc |-> "ValueError"]
          ELSE san' = [value |-> v, max_length |-> MaxLength,
                       once |-> sanitize_string(v, MaxLength),
                       twice |-> <<>>, pc |-> "once"]
    /\ UNCHANGED <<cacheVars, chainVars, th, lim, appVars>>

\* The sanitized text is sanitized again (the schema validator and the
\* sanitizing stage both call sanitize_string).
SanitizeAgain ==
    /\ san.pc = "once"
    /\ san' = [san EXCEPT !.twice = sanitize_string(san.once, san.max_length),
                          !.pc = "twice"]
    /\ UNCHANGED <<cacheVars, chainVars, th, lim, appVars>>

\* The text is done with.
SanitizeDone ==
    /\ san.pc \in {"twice", "ValueError"}
    /\ san' = NoText
    /\ UNCHANGED <<cacheVars, chainVars, th, lim, appVars>>

InitSanitize ==
    /\ env = [redis_url |-> FALSE, redis |-> TRUE, from_url_raises |-> FALSE]
    /\ now = 0
    /\ redis_client = CacheManagerInit(env)
    /\ redis_store = EmptyDict
    /\ fallback_cache = EmptyDict
    /\ lastOp = NoOp
    /\ ChainIdle
    /\ san = NoText
    /\ th = NoThreads
    /\ lim = NoLimiter
    /\ AppIdle

NextSanitize == SanitizeField \/ ValidateQuestion \/ SanitizeAgain \/ SanitizeDone

SpecSanitize == InitSanitize /\ [][NextSanitize]_vars

\* C10: sanitizing a sanitized text with the same maximum length returns it
\* unchanged, and the sanitized text has at most max_length characters.
C10_SanitizeIdempotent ==
    san.pc = "twice"
       => (san.twice = san.once /\ Len(san.once) <= san.max_length)

\* ------------------------------------------------- outcomes of the gateway
\* The status a checking stage answers with when it ends a request.
StageStatus(stage) ==
    CASE stage = "RateLimitMiddleware" -> 429
      [] stage = "RequestSizeMiddleware" -> 413
      [] stage = "WAFMiddleware" -> 403
      [] stage = "JWTAuthMiddleware" -> 401
      [] OTHER -> 0

\* C11: the status of an answered request is the one of the stage that ended
\* it (429 from the rate limiter, 413 from the size guard, 403 from the WAF
\* inspector, 401 from the token authenticator), a request violating several
\* checks is ended by the earliest of them that it reached, and when no stage
\* ended it the status is the handler's own.
C11_OutcomeMapping ==
    Responded
       => /\ termBy # "" => status = StageStatus(termBy)
          /\ (Ran("RequestSizeMiddleware") /\ req.size > MaxBodySize)
                => termBy = "RequestSizeMiddleware"
          /\ (Ran("WAFMiddleware") /\ req.waf) => termBy = "WAFMiddleware"
          /\ (Ran("JWTAuthMiddleware") /\ ClaimProtected(req.path) /\ req.cred # "valid")
                => termBy = "JWTAuthMiddleware"
          /\ termBy = "" => (Ran("handler") /\ status \in HandlerStatuses)

\* C12: a request during which a stage raised an unexpected fault is
\* answered with the generic server error, and the audit logger has written
\* its record for it.
C12_FaultIsolation ==
    (Responded /\ rl.outcome = "fault") => (status = 500 /\ audit = 1)

\* ------------------------------------------- threads in the cache manager
\* The text and the TTLs the threads store, and the one key they share.
ThreadTexts == {"abc"}

ThreadTtls == 0..1

ThreadKey == "k1"

\* The clock of the threads' specification runs over 0..ThreadsMaxTime.
ThreadsMaxTime == 1

\* `with self._lock:` entered although another thread holds the lock.
LockAvailable_NoLock(lock) == TRUE

\* threading.Lock: `with self._lock:` is entered only while no thread holds it.
LockAvailable(lock) == lock = 0

\* The positions at which a thread is inside the `with self._lock:` block of
\* _InMemoryTTLCache.get or _InMemoryTTLCache.set.
InsideMap == {"get_read", "get_check", "get_del", "set_store"}

\* The positions at which a thread waits for the remote store's answer.
InRemoteCall == {"get_remote", "set_remote"}

\* Thread t moves to position p with locals l; the lock becomes k.
ThreadTo(t, p, l, k) ==
    th' = [th EXCEPT !.pc[t] = p, !.loc[t] = l, !.lock = k]

\* Thread t leaves the `with` block and returns from the call.
ThreadReturns(t) == ThreadTo(t, "idle", NoLocal, 0)

\* CacheManager.get(key) is called: the remote store is asked first when
\* there is a client.
ThreadGet(t) ==
    /\ th.pc[t] = "idle"
    /\ ThreadTo(t, IF redis_client THEN "get_remote" ELSE "get_lock", NoLocal, th.lock)
    /\ UNCHANGED <<cacheVars, chainVars, san, lim, appVars>>

\* self._redis_client.get(key) answers: a value is decoded and returned,
\* a miss or an error goes on to the local store.
ThreadGetRemote(t) ==
    /\ th.pc[t] = "get_remote"
    /\ \E fail \in BOOLEAN :
          IF ~fail /\ RedisGet(redis_store, ThreadKey, now) # None
          THEN ThreadTo(t, "idle", NoLocal, th.lock)
          ELSE ThreadTo(t, "get_lock", NoLocal, th.lock)
    /\ UNCHANGED <<cacheVars, chainVars, san, lim, appVars>>

\* _InMemoryTTLCache.get: with self._lock.
ThreadGetLock(t) ==
    /\ th.pc[t] = "get_lock"
    /\ LockAvailable(th.lock)
    /\ ThreadTo(t, "get_read", NoLocal, t)
    /\ UNCHANGED <<cacheVars, chainVars, san, lim, appVars>>

\* entry = self._store.get(key); if not entry: return None.
ThreadGetRead(t) ==
    /\ th.pc[t] = "get_read"
    /\ IF ThreadKey \notin DOMAIN fallback_cache
       THEN ThreadReturns(t)
       ELSE ThreadTo(t, "get_check", [NoLocal EXCEPT !.entry = fallback_cache[ThreadKey]], th.lock)
    /\ UNCHANGED <<cacheVars, chainVars, san, lim, appVars>>

\* if expires_at < time.time(): ... else return value.
ThreadGetCheck(t) ==
    /\ th.pc[t] = "get_check"
    /\ IF InMemoryExpired(th.loc[t].entry, now)
       THEN ThreadTo(t, "get_del", th.loc[t], th.lock)
       ELSE ThreadReturns(t)
    /\ UNCHANGED <<cacheVars, chainVars, san, lim, appVars>>

\* del self._store[key]; return None.
ThreadGetDel(t) ==
    /\ th.pc[t] = "get_del"
    /\ fallback_cache' = DictDel(fallback_cache, ThreadKey)
    /\ ThreadReturns(t)
    /\ UNCHANGED <<env, now, redis_client, redis_store, lastOp, chainVars, san, lim, appVars>>

\* CacheManager.set(key, value, ttl_seconds) is called and serializes.
ThreadSet(t) ==
    /\ th.pc[t] = "idle"
    /\ \E text \in ThreadTexts, ttl \in ThreadTtls :
          ThreadTo(t, IF redis_client THEN "set_remote" ELSE "set_time",
                   [NoLocal EXCEPT !.text = text, !.ttl = ttl], th.lock)
    /\ UNCHANGED <<cacheVars, chainVars, san, lim, appVars>>

\* self._redis_client.setex(key, ttl_seconds, serialized) answers: done, or
\* an error goes on to the local store.
ThreadSetRemote(t) ==
    /\ th.pc[t] = "set_remote"
    /\ \E fail \in BOOLEAN :
          IF ~fail /\ ~RedisSetexRaises(th.loc[t].ttl)
          THEN /\ redis_store' = RedisSetex(redis_store, ThreadKey, th.loc[t].text,
                                            th.loc[t].ttl, now)
               /\ ThreadTo(t, "idle", NoLocal, th.lock)
          ELSE /\ redis_store' = redis_store
               /\ ThreadTo(t, "set_time", th.loc[t], th.lock)
    /\ UNCHANGED <<env, now, redis_client, fallback_cache, lastOp, chainVars, san, lim, appVars>>

\* _InMemoryTTLCache.set: expires_at = time.time() + ttl_seconds.
ThreadSetTime(t) ==
    /\ th.pc[t] = "set_time"
    /\ ThreadTo(t, "set_lock", [th.loc[t] EXCEPT !.expires_at = now + th.loc[t].ttl], th.lock)
    /\ UNCHANGED <<cacheVars, chainVars, san, lim, appVars>>

\* _InMemoryTTLCache.set: with self._lock.
ThreadSetLock(t) ==
    /\ th.pc[t] = "set_lock"
    /\ LockAvailable(th.lock)
    /\ ThreadTo(t, "set_store", th.loc[t], t)
    /\ UNCHANGED <<cacheVars, chainVars, san, lim, appVars>>

\* self._store[key] = (expires_at, value).
ThreadSetStore(t) ==
    /\ th.pc[t] = "set_store"
    /\ fallback_cache' = DictPut(fallback_cache, ThreadKey,
                                 [expires_at |-> th.loc[t].expires_at,
                                  value |-> th.loc[t].text])
    /\ ThreadReturns(t)
    /\ UNCHANGED <<env, now, redis_client, redis_store, lastOp, chainVars, san, lim, appVars>>

\* A second passes while threads are inside their calls.
ThreadsTick ==
    /\ now < ThreadsMaxTime
    /\ now' = now + 1
    /\ redis_store' = RedisExpire(redis_store, now + 1)
    /\ UNCHANGED <<env, redis_client, fallback_cache, lastOp, chainVars, san, th, lim, appVars>>

InitThreads ==
    /\ env \in GatewayEnvironments
    /\ now = 0
    /\ redis_client = CacheManagerInit(env)
    /\ redis_store = EmptyDict
    /\ fallback_cache = EmptyDict
    /\ lastOp = NoOp
    /\ ChainIdle
    /\ san = NoText
    /\ th = NoThreads
    /\ lim = NoLimiter
    /\ AppIdle

NextThreads ==
    \/ \E t \in Threads : ThreadGet(t)
    \/ \E t \in Threads : ThreadGetRemote(t)
    \/ \E t \in Threads : ThreadGetLock(t)
    \/ \E t \in Threads : ThreadGetRead(t)
    \/ \E t \in Threads : ThreadGetCheck(t)
    \/ \E t \in Threads : ThreadGetDel(t)
    \/ \E t \in Threads : ThreadSet(t)
    \/ \E t \in Threads : ThreadSetRemote(t)
    \/ \E t \in Threads : ThreadSetTime(t)
    \/ \E t \in Threads : ThreadSetLock(t)
    \/ \E t \in Threads : ThreadSetStore(t)
    \/ ThreadsTick

SpecThreads == InitThreads /\ [][NextThreads]_vars

\* C17: at most one thread is inside the local store's map, and it is the
\* one holding the lock; a get deletes only the entry it found expired, never
\* a live one that a concurrent set has put in its place; and a thread
\* waiting for the remote store's answer does not hold the lock.
C17_MutualExclusion ==
    /\ [](\A t, u \in Threads :
            (th.pc[t] \in InsideMap /\ th.pc[u] \in InsideMap) => t = u)
    /\ [](\A t \in Threads :
            /\ th.pc[t] \in InsideMap => th.lock = t
            /\ th.pc[t] \in InRemoteCall => th.lock # t)
    /\ [][\A t \in Threads :
            (th.pc[t] = "get_del" /\ th'.pc[t] = "idle")
               => /\ ThreadKey \in DOMAIN fallback_cache
                  /\ fallback_cache[ThreadKey] = th.loc[t].entry
                  /\ InMemoryExpired(fallback_cache[ThreadKey], now)
                  /\ ThreadKey \notin DOMAIN fallback_cache']_vars

\* C17 witness: a get is about to evict an expired entry while another
\* thread, with a live entry to store, waits for the lock.
C17_Witness ==
    \E t, u \in Threads :
        /\ th.pc[t] = "get_del" /\ th.lock = t
        /\ th.pc[u] = "set_lock"
        /\ th.loc[u].expires_at > now

\* ------------------------------------ concurrent requests in the limiter
\* The client whose requests meet in the rate limiter.
LimiterClient == "X"

\* The window a time falls in, and the rate counter's key of a window.
WindowOf(t) == t \div RateLimitWindow

WindowKey(w) == RateKey(LimiterClient, w * RateLimitWindow)

\* Request r enters the rate limiter: count = CacheManager.get(key) or 0,
\* and the check of the count against the threshold.  A rejected (or
\* faulted) request is answered at once; an admitted one goes on to write
\* the counter.  A new request takes the lowest free slot, and at most
\* MaxRequests arrive in one window.
LimiterGet(r) ==
    /\ lim.pc[r] = "idle"
    /\ \A q \in Concurrent : q < r => lim.pc[q] # "idle"
    /\ lim.arrived < MaxRequests
    /\ \E fail \in BOOLEAN :
        LET got == ManagerGet(redis_store, fallback_cache, WindowKey(WindowOf(now)), fail)
            count == CountOrZero(got.value)
            decision == RateDecision(count)
        IN  /\ fail => redis_client
            /\ fallback_cache' = got.store
            /\ lim' = [lim EXCEPT
                         !.pc[r] = IF decision = "continue" THEN "got" ELSE "idle",
                         !.count[r] = IF decision = "continue" THEN count.n ELSE 0,
                         !.arrived = @ + 1,
                         !.overlap = @ \/ \E q \in Concurrent : lim.pc[q] = "got",
                         !.failed = @ \/ fail]
    /\ UNCHANGED <<env, now, redis_client, redis_store, lastOp, chainVars, san, th, appVars>>

\* Request r writes the counter, CacheManager.set(key, count + 1, ttl=W), and
\* continues to the next stage.
LimiterSet(r) ==
    /\ lim.pc[r] = "got"
    /\ \E fail \in BOOLEAN :
        LET put == ManagerSet(redis_store, fallback_cache, WindowKey(WindowOf(now)),
                              PyInt(lim.count[r] + 1), RateLimitWindow, fail)
        IN  /\ fail => redis_client
            /\ redis_store' = put.redis
            /\ fallback_cache' = put.store
            /\ lim' = [lim EXCEPT
                         !.pc[r] = "idle",
                         !.count[r] = 0,
                         !.admitted[now] = @ + 1,
                         !.wrote[WindowOf(now)] = now,
                         !.failed = @ \/ fail]
    /\ UNCHANGED <<env, now, redis_client, lastOp, chainVars, san, th, appVars>>

\* A second passes between requests (a request is through the limiter in
\* much less than a second).
LimiterTick ==
    /\ now < MaxTime
    /\ \A r \in Concurrent : lim.pc[r] = "idle"
    /\ now' = now + 1
    /\ redis_store' = RedisExpire(redis_store, now + 1)
    /\ lim' = [lim EXCEPT !.arrived = IF WindowOf(now + 1) = WindowOf(now) THEN @ ELSE 0]
    /\ UNCHANGED <<env, redis_client, fallback_cache, lastOp, chainVars, san, th, appVars>>

InitLimiter ==
    /\ env \in GatewayEnvironments
    /\ now = 0
    /\ redis_client = CacheManagerInit(env)
    /\ redis_store = EmptyDict
    /\ fallback_cache = EmptyDict
    /\ lastOp = NoOp
    /\ ChainIdle
    /\ san = NoText
    /\ th = NoThreads
    /\ lim = NoLimiter
    /\ AppIdle

NextLimiter ==
    \/ \E r \in Concurrent : LimiterGet(r)
    \/ \E r \in Concurrent : LimiterSet(r)
    \/ LimiterTick

SpecLimiter == InitLimiter /\ [][NextLimiter]_vars

\* The requests admitted at the instants a..b.
RECURSIVE AdmittedOver(_, _)
AdmittedOver(a, b) ==
    IF a > b \/ a > MaxTime THEN 0 ELSE lim.admitted[a] + AdmittedOver(a + 1, b)

\* The requests admitted in window w.
AdmittedIn(w) == AdmittedOver(w * RateLimitWindow, (w + 1) * RateLimitWindow - 1)

Windows == 0..WindowOf(MaxTime)

\* The rate counter of window w as the next read would see it (0 when no
\* live entry exists).
StoredCount(w) ==
    LET value == ManagerGet(redis_store, fallback_cache, WindowKey(w), FALSE).value
    IN  IF value = None THEN 0
        ELSE IF value.t = "int" THEN value.n
        ELSE CHOOSE n \in JsonInts : ToString(n) = value.s

CounterLive(w) ==
    ManagerGet(redis_store, fallback_cache, WindowKey(w), FALSE).value # None

\* C20 as stated: the counter of window w exists only once a request of
\* window w has written it, and at every time at or after the end of window
\* w no live cache entry exists for it.
C20_ExpiresAtWindowEnd ==
    \A w \in Windows :
        /\ CounterLive(w) => lim.wrote[w] # -1
        /\ now >= (w + 1) * RateLimitWindow => ~CounterLive(w)

\* C20 amended: the counter of window w exists only once a request of
\* window w has written it, and at every time more than RateLimitWindow
\* after its last write no live cache entry exists for it.
C20_ExpiresAfterLastWrite ==
    \A w \in Windows :
        CounterLive(w)
           => (lim.wrote[w] # -1 /\ now <= lim.wrote[w] + RateLimitWindow)

\* C20 witness: window w has ended and its counter, last written after the
\* window's first instant, is still live.
C20_Witness ==
    \E w \in Windows :
        /\ now >= (w + 1) * RateLimitWindow
        /\ CounterLive(w)
        /\ lim.wrote[w] > w * RateLimitWindow

\* -------------------------------------------- /register/admin/initial
\* A student registered before, and the user ids and e-mail addresses the
\* calls ask for (one id and one address are the student's).
Student == [user_id |-> "s1", email |-> "e1", role |-> "student"]

AdminIds == {"a1", "a2", "s1"}

AdminEmails == {"e1", "e2", "e3"}

\* db.query(User).filter(User.role == "admin").first()
ExistingAdmin(users) == \E u \in users : u.role = "admin"

\* The unique constraints of the users table (user_id, email) let the row in.
UniqueOk(users, row) ==
    \A u \in users : u.user_id # row.user_id /\ u.email # row.email

\* Call c moves to position p with answer a.
AdminTo(c, p, a) == [admin EXCEPT !.pc[c] = p, !.answer[c] = a]

\* A POST /register/admin/initial arrives.
AdminCall(c) ==
    /\ admin.pc[c] = "idle"
    /\ \E id \in AdminIds, mail \in AdminEmails :
          admin' = [admin EXCEPT
                      !.pc[c] = "query_admin",
                      !.data[c] = [user_id |-> id, email |-> mail,
                                   admin_existed |-> ExistingAdmin(admin.users)]]
    /\ UNCHANGED <<cacheVars, chainVars, san, th, lim, gpa, chat>>

\* existing_admin = ...first(); if existing_admin: raise 403.
AdminQuery(c) ==
    /\ admin.pc[c] = "query_admin"
    /\ admin' = IF ExistingAdmin(admin.users)
                THEN AdminTo(c, "done", 403)
                ELSE AdminTo(c, "check_id", 0)
    /\ UNCHANGED <<cacheVars, chainVars, san, th, lim, gpa, chat>>

\* The user id is taken: 400.
AdminCheckId(c) ==
    /\ admin.pc[c] = "check_id"
    /\ admin' = IF \E u \in admin.users : u.user_id = admin.data[c].user_id
                THEN AdminTo(c, "done", 400)
                ELSE AdminTo(c, "check_email", 0)
    /\ UNCHANGED <<cacheVars, chainVars, san, th, lim, gpa, chat>>

\* The e-mail address is taken: 400.
AdminCheckEmail(c) ==
    /\ admin.pc[c] = "check_email"
    /\ admin' = IF \E u \in admin.users : u.email = admin.data[c].email
                THEN AdminTo(c, "done", 400)
                ELSE AdminTo(c, "commit", 0)
    /\ UNCHANGED <<cacheVars, chainVars, san, th, lim, gpa, chat>>

\* db.add(db_user); db.commit(): the row with role "admin" is inserted and
\* the call answers 201, or a unique constraint refuses it, the exception
\* is caught, the session is rolled back and the call answers 500.
AdminCommit(c) ==
    /\ admin.pc[c] = "commit"
    /\ LET row == [user_id |-> admin.data[c].user_id, email |-> admin.data[c].email,
                   role |-> "admin"]
       IN  admin' = IF UniqueOk(admin.users, row)
                    THEN [AdminTo(c, "done", 201) EXCEPT
                            !.users = @ \cup {row}, !.created = @ + 1]
                    ELSE AdminTo(c, "done", 500)
    /\ UNCHANGED <<cacheVars, chainVars, san, th, lim, gpa, chat>>

\* The response is sent.
AdminReturn(c) ==
    /\ admin.pc[c] = "done"
    /\ admin' = [admin EXCEPT !.pc[c] = "idle", !.data[c] = NoAdminData, !.answer[c] = 0]
    /\ UNCHANGED <<cacheVars, chainVars, san, th, lim, gpa, chat>>

InitAdmin ==
    /\ env = [redis_url |-> FALSE, redis |-> TRUE, from_url_raises |-> FALSE]
    /\ now = 0
    /\ redis_client = CacheManagerInit(env)
    /\ redis_store = EmptyDict
    /\ fallback_cache = EmptyDict
    /\ lastOp = NoOp
    /\ ChainIdle
    /\ san = NoText
    /\ th = NoThreads
    /\ lim = NoLimiter
    /\ admin \in {NoAdmin, [NoAdmin EXCEPT !.users = {Student}]}
    /\ gpa = NoGpa
    /\ chat = NoChat

NextAdmin ==
    \/ \E c \in AdminCalls : AdminCall(c)
    \/ \E c \in AdminCalls : AdminQuery(c)
    \/ \E c \in AdminCalls : AdminCheckId(c)
    \/ \E c \in AdminCalls : AdminCheckEmail(c)
    \/ \E c \in AdminCalls : AdminCommit(c)
    \/ \E c \in AdminCalls : AdminReturn(c)

SpecAdmin == InitAdmin /\ [][NextAdmin]_vars

\* C22: at most one admin account has been created through
\* /register/admin/initial, whatever the interleaving of its calls, and a
\* call that arrived while an admin existed is answered 403 without
\* reaching the insert.
C22_AtMostOneInitialAdmin ==
    /\ admin.created <= 1
    /\ \A c \in AdminCalls :
          admin.data[c].admin_existed
             => /\ admin.pc[c] \in {"query_admin", "done"}
                /\ admin.pc[c] = "done" => admin.answer[c] = 403

\* ------------------------------------------------- check_gpa_warning
\* config.get("gpa_warning_threshold", 2.0), and the days a low-GPA alert
\* counts as recent.
gpa_warning_threshold == 2

RecentDays == 7

\* The averages the callers pass: below, at and above the threshold.
GpaValues == {gpa_warning_threshold - 1, gpa_warning_threshold, gpa_warning_threshold + 1}

\* The query of check_gpa_warning: an alert of the user with the warning
\* message and created_at > utcnow() - 7 days exists.
RecentAlert(alerts, day) ==
    \E d \in DOMAIN alerts : alerts[d] > 0 /\ d > day - RecentDays

\* check_gpa_warning(db, user_id, current_gpa) is called: an average not
\* below the threshold returns at once.
GpaCall(c) ==
    /\ gpa.pc[c] = "idle"
    /\ \E g \in GpaValues :
          gpa' = [gpa EXCEPT !.current_gpa[c] = g,
                             !.pc[c] = IF g < gpa_warning_threshold THEN "query" ELSE "return"]
    /\ UNCHANGED <<cacheVars, chainVars, san, th, lim, admin, chat>>

\* recent_alert = db.query(Notification)...first(); if not recent_alert.
GpaQuery(c) ==
    /\ gpa.pc[c] = "query"
    /\ gpa' = [gpa EXCEPT !.pc[c] = IF RecentAlert(gpa.alerts, gpa.day)
                                    THEN "return" ELSE "create"]
    /\ UNCHANGED <<cacheVars, chainVars, san, th, lim, admin, chat>>

\* create_notification: the alert is added and committed, created_at being
\* the time of the insert.
GpaCreate(c) ==
    /\ gpa.pc[c] = "create"
    /\ gpa' = [gpa EXCEPT !.alerts[gpa.day] = @ + 1, !.pc[c] = "return"]
    /\ UNCHANGED <<cacheVars, chainVars, san, th, lim, admin, chat>>

GpaReturn(c) ==
    /\ gpa.pc[c] = "return"
    /\ gpa' = [gpa EXCEPT !.pc[c] = "idle", !.current_gpa[c] = 0]
    /\ UNCHANGED <<cacheVars, chainVars, san, th, lim, admin, chat>>

\* A day passes.
GpaDay ==
    /\ gpa.day < MaxDay
    /\ gpa' = [gpa EXCEPT !.day = @ + 1]
    /\ UNCHANGED <<cacheVars, chainVars, san, th, lim, admin, chat>>

InitGpa ==
    /\ env = [redis_url |-> FALSE, redis |-> TRUE, from_url_raises |-> FALSE]
    /\ now = 0
    /\ redis_client = CacheManagerInit(env)
    /\ redis_store = EmptyDict
    /\ fallback_cache = EmptyDict
    /\ lastOp = NoOp
    /\ ChainIdle
    /\ san = NoText
    /\ th = NoThreads
    /\ lim = NoLimiter
    /\ AppIdle

NextGpa ==
    \/ \E c \in GpaCalls : GpaCall(c)
    \/ \E c \in GpaCalls : GpaQuery(c)
    \/ \E c \in GpaCalls : GpaCreate(c)
    \/ \E c \in GpaCalls : GpaReturn(c)
    \/ GpaDay

SpecGpa == InitGpa /\ [][NextGpa]_vars

\* The low-GPA alerts of the user created on the days a..b.
RECURSIVE AlertsOver(_, _)
AlertsOver(a, b) ==
    IF a > b \/ a > MaxDay THEN 0 ELSE gpa.alerts[a] + AlertsOver(a + 1, b)

\* C23: at most one low-GPA alert of the user has been created within any 7
\* consecutive days, whatever the interleaving of the calls, and a call
\* whose current_gpa is not below the threshold creates none.
C23_OneWarningPerWeek ==
    /\ \A d \in 0..MaxDay : AlertsOver(d, d + RecentDays - 1) <= 1
    /\ \A c \in GpaCalls :
          gpa.pc[c] \in {"query", "create"} => gpa.current_gpa[c] < gpa_warning_threshold

\* ------------------------------------------------------------- /chat
\* The users that send /chat requests, and the intents the advisor answers.
ChatUsers == {"u1", "u2"}

ChatIntents == {"answer", "clarify"}

\* An authorization check that lets every request through.
ChatAuthorized_Always(user_id, current_user) == TRUE

\* The authorization check of chat_with_advisor: the request passes unless
\* chat_request.user_id != current_user.user_id.
ChatAuthorized(user_id, current_user) == user_id = current_user

\* Whether chat_with_advisor persists the exchange.
ChatPersists(is_demo, intent) == ~is_demo /\ intent # "clarify"

\* _persist_chat_exchange(db_users, current_user.user_id, ...): the user's
\* and the assistant's message, each marked with the request it came from.
ChatExchange(call) ==
    {[user_id |-> call.current_user, role |-> role, intent |-> call.intent,
      from_user |-> call.current_user, from_body |-> call.user_id,
      from_demo |-> call.is_demo] : role \in {"user", "assistant"}}

\* A POST /chat arrives: get_current_user has authenticated current_user,
\* and the body names user_id.
ChatArrive(c) ==
    /\ chat.call[c].pc = "idle"
    /\ \E u \in ChatUsers, demo \in BOOLEAN, id \in ChatUsers :
          chat' = [chat EXCEPT !.call[c] =
                      [NoChatCall EXCEPT !.pc = "authorize", !.current_user = u,
                                         !.is_demo = demo, !.user_id = id]]
    /\ UNCHANGED <<cacheVars, chainVars, san, th, lim, admin, gpa>>

\* The authorization check: 403 for another user's id, else the chat
\* history is read and the query goes to the advisor.
ChatAuthorize(c) ==
    /\ chat.call[c].pc = "authorize"
    /\ chat' = IF ChatAuthorized(chat.call[c].user_id, chat.call[c].current_user)
               THEN [chat EXCEPT !.call[c].pc = "await", !.call[c].processed = TRUE]
               ELSE [chat EXCEPT !.call[c].pc = "done", !.call[c].answer = 403]
    /\ UNCHANGED <<cacheVars, chainVars, san, th, lim, admin, gpa>>

\* await llm_service.process_agentic_query(...) returns a response with an
\* intent, or raises and the request ends as 500.
ChatAnswered(c) ==
    /\ chat.call[c].pc = "await"
    /\ \/ \E intent \in ChatIntents :
             chat' = [chat EXCEPT !.call[c].pc = "persist", !.call[c].intent = intent]
       \/ chat' = [chat EXCEPT !.call[c].pc = "done", !.call[c].answer = 500]
    /\ UNCHANGED <<cacheVars, chainVars, san, th, lim, admin, gpa>>

\* if not is_demo and intent != "clarify": _persist_chat_exchange(...), whose
\* commit may fail and be rolled back; then the response is returned.
ChatPersist(c) ==
    /\ chat.call[c].pc = "persist"
    /\ \E committed \in BOOLEAN :
          chat' = [chat EXCEPT
                     !.messages = IF ChatPersists(chat.call[c].is_demo, chat.call[c].intent)
                                     /\ committed
                                  THEN @ \cup ChatExchange(chat.call[c]) ELSE @,
                     !.call[c].pc = "done",
                     !.call[c].answer = 200]
    /\ UNCHANGED <<cacheVars, chainVars, san, th, lim, admin, gpa>>

\* The response is sent.
ChatReturn(c) ==
    /\ chat.call[c].pc = "done"
    /\ chat' = [chat EXCEPT !.call[c] = NoChatCall]
    /\ UNCHANGED <<cacheVars, chainVars, san, th, lim, admin, gpa>>

InitChat ==
    /\ env = [redis_url |-> FALSE, redis |-> TRUE, from_url_raises |-> FALSE]
    /\ now = 0
    /\ redis_client = CacheManagerInit(env)
    /\ redis_store = EmptyDict
    /\ fallback_cache = EmptyDict
    /\ lastOp = NoOp
    /\ ChainIdle
    /\ san = NoText
    /\ th = NoThreads
    /\ lim = NoLimiter
    /\ AppIdle

NextChat ==
    \/ \E c \in ChatCalls : ChatArrive(c)
    \/ \E c \in ChatCalls : ChatAuthorize(c)
    \/ \E c \in ChatCalls : ChatAnswered(c)
    \/ \E c \in ChatCalls : ChatPersist(c)
    \/ \E c \in ChatCalls : ChatReturn(c)

SpecChat == InitChat /\ [][NextChat]_vars

\* C24: every persisted chat message of user u comes from a request
\* authenticated as u whose body user_id was u, that was not a demo user's
\* and whose intent was not 'clarify'; and a request whose user_id differs
\* from the authenticated user is answered 403 without its query having
\* been processed.
C24_ChatOwnership ==
    /\ \A m \in chat.messages :
          /\ m.from_user = m.user_id
          /\ m.from_body = m.user_id
          /\ ~m.from_demo
          /\ m.intent # "clarify"
    /\ \A c \in ChatCalls :
          (chat.call[c].user_id # chat.call[c].current_user
             /\ chat.call[c].pc # "authorize")
             => /\ chat.call[c].pc = "done"
                /\ chat.call[c].answer = 403
                /\ ~chat.call[c].processed

\* C24 witness: an exchange of one user is persisted and a request naming
\* another user's id has been answered 403.
C24_Witness ==
    /\ chat.messages # {}
    /\ \E c \in ChatCalls :
          /\ chat.call[c].pc = "done" /\ chat.call[c].answer = 403
          /\ chat.call[c].user_id # chat.call[c].current_user
          /\ \E m \in chat.messages : m.user_id = chat.call[c].user_id

====
